---- MODULE Spec2Model ----
(***************************************************************************)
(* Torii, the network gateway of an Iroha peer (src/iroha/src/torii.rs).   *)
(*                                                                         *)
(* The listener hands every inbound stream to handle_connection, which     *)
(* spawns one task on the thread pool; the task reads requests from the    *)
(* stream, passes each to handle_request and writes the response back.     *)
(* handle_request routes on the request's URI: /instruction decodes a      *)
(* transaction, accepts it and sends it on the transaction channel; /query *)
(* decodes a query and executes it against the locked world state view;    *)
(* /block decodes a peer message and sends it on the message channel.      *)
(*                                                                         *)
(* One step of the model is one stretch of a task between two suspension   *)
(* points (a stream read or write, or a lock().await that has to wait).    *)
(***************************************************************************)
EXTENDS Naturals, Sequences, FiniteSets

(***************************************************************************)
(* Bounds of the model.                                                    *)
(***************************************************************************)
\* inbound connections
NConn == 2
\* requests read over all connections
MaxRequests == 2
\* worker threads of the ThreadPool handed to Torii::new
PoolSize == 1
\* transactions each client submits under SpecTx
PerConn == 2

Conns == 1..NConn

(***************************************************************************)
(* Constants of torii.rs.                                                  *)
(***************************************************************************)
QUERY_URI == "/query"
INSTRUCTIONS_URI == "/instruction"
BLOCKS_URI == "/block"
\* a response is a sequence of byte chunks; the status line is its first chunk
OK == <<"HTTP/1.1 200 OK\r\n\r\n">>
INTERNAL_ERROR == <<"HTTP/1.1 500 Internal Server Error\r\n\r\n">>

\* a URI outside the routing table (one that has a route as a prefix)
OtherUri == "/instructions"
Uris == {INSTRUCTIONS_URI, QUERY_URI, BLOCKS_URI, OtherUri}

(***************************************************************************)
(* Payloads and the decoders (TryFrom<Vec<u8>>).  A payload is a sequence  *)
(* of chunks: the kind of value it encodes, then the value's fields.  A    *)
(* transaction carries the nonce <<connection, request number>> its client *)
(* gave it, so that two submitted transactions are never equal.            *)
(***************************************************************************)
NoValue == [ok |-> FALSE]
Decoded(v) == [ok |-> TRUE, value |-> v]

\* the payloads a client may put in request k of connection c
Payloads(c, k) ==
    { <<"tx", "signed", c, k>>, <<"tx", "unsigned", c, k>>,
      <<"query", "alice">>, <<"query", "bob">>,
      <<"msg", c, k>>,
      <<"tx">> }

\* Transaction::try_from(payload)
DecodeTransaction(p) ==
    IF Len(p) = 4 /\ p[1] = "tx"
    THEN Decoded([signature |-> p[2], nonce |-> <<p[3], p[4]>>])
    ELSE NoValue

\* QueryRequest::try_from(payload)
DecodeQuery(p) ==
    IF Len(p) = 2 /\ p[1] = "query"
    THEN Decoded([account |-> p[2]])
    ELSE NoValue

\* Message::try_from(payload)
DecodeMessage(p) ==
    IF Len(p) = 3 /\ p[1] = "msg"
    THEN Decoded([block |-> <<p[2], p[3]>>])
    ELSE NoValue

\* transaction.accept(): Ok for a signed transaction, Err otherwise
Accept(tx) ==
    IF tx.signature = "signed"
    THEN Decoded([accepted |-> tx.nonce])
    ELSE NoValue

(***************************************************************************)
(* The world state view and query execution.  The view maps the accounts   *)
(* that exist to their asset quantity.                                     *)
(***************************************************************************)
Accounts == {"alice"}
InitialView == [a \in Accounts |-> 0]
\* the view after the consensus subsystem has committed a block
CommittedView == [a \in Accounts |-> 1]

\* request.query.execute(&world_state_view): the account's assets, or an Err
\* whose text is printed
Execute(query, view) ==
    IF query.account \in DOMAIN view
    THEN Decoded(<<query.account, view[query.account]>>)
    ELSE [ok |-> FALSE, error |-> "No account found."]

\* (&result).into(): the bytes of a query result
Serialize(result) == <<"account", result[1], "quantity", result[2]>>

(***************************************************************************)
(* Requests.  The client of connection c chooses request k among these: on *)
(* each route a payload of the route's kind or a truncated one, and on the *)
(* unrouted URI a well-formed transaction.                                 *)
(***************************************************************************)
Truncated == <<"tx">>

RouteKind(url) ==
    CASE url = INSTRUCTIONS_URI -> "tx"
      [] url = QUERY_URI -> "query"
      [] url = BLOCKS_URI -> "msg"
      [] OTHER -> "none"

Requests(c, k) ==
    { r \in [url : Uris \ {OtherUri}, payload : Payloads(c, k)] :
        r.payload[1] = RouteKind(r.url) \/ r.payload = Truncated }
    \cup { [url |-> OtherUri, payload |-> <<"tx", "signed", c, k>>] }

NoRequest == [url |-> "", payload |-> <<>>]

VARIABLES
    pc,         \* pc[c]: where connection c's task stands
    req,        \* req[c]: the request the task is handling
    n,          \* n[c]: requests read from connection c so far
    resp,       \* resp[c]: the response handle_request returned for req[c]
    result,     \* result[c]: how the last call of handle_request on c ended
    log,        \* log[c]: what the current request printed with eprintln!
    written,    \* written[c]: the request numbers answered on c, in order
    submitted,  \* nonces of the acceptable transactions clients have sent
    lock,       \* lock[m]: the owner of mutex m
    txOutbox,   \* items sent on the transaction channel
    msgOutbox,  \* items sent on the message channel
    txOpen,     \* the transaction channel's receiver is alive
    msgOpen,    \* the message channel's receiver is alive
    wsv,        \* the world state view
    workers     \* live worker threads of the pool

vars == <<pc, req, n, resp, result, log, written, submitted, lock, txOutbox,
          msgOutbox, txOpen, msgOpen, wsv, workers>>

conn == <<pc, req, n, resp, result, log, written>>
channels == <<txOutbox, msgOutbox, txOpen, msgOpen>>

(***************************************************************************)
(* The mutexes: Arc<Mutex<ToriiState>> made by Torii::start, and the three *)
(* inside it.  A lock is owned by nobody, by the task of a connection, or  *)
(* (the world state view) by the consensus subsystem.                      *)
(***************************************************************************)
StateLock == "state"
WsvLock == "world_state_view"
TxLock == "transaction_sender"
MsgLock == "message_sender"
Mutexes == {StateLock, WsvLock, TxLock, MsgLock}

Free == <<>>
Task(c) == <<"task", c>>
Consensus == <<"consensus">>

Holds(c, m) == lock[m] = Task(c)

NoResponse == <<>>

\* Torii::new and Torii::start: nothing is sent and no lock is taken
Init ==
    /\ pc = [c \in Conns |-> "none"]
    /\ req = [c \in Conns |-> NoRequest]
    /\ n = [c \in Conns |-> 0]
    /\ resp = [c \in Conns |-> NoResponse]
    /\ result = [c \in Conns |-> "none"]
    /\ log = [c \in Conns |-> ""]
    /\ written = [c \in Conns |-> <<>>]
    /\ submitted = {}
    /\ lock = [m \in Mutexes |-> Free]
    /\ txOutbox = <<>>
    /\ msgOutbox = <<>>
    /\ txOpen = TRUE
    /\ msgOpen = TRUE
    /\ wsv = InitialView
    /\ workers = PoolSize

\* requests read so far, over the connections 1..c
RECURSIVE ReadUpTo(_)
ReadUpTo(c) == IF c = 0 THEN 0 ELSE n[c] + ReadUpTo(c - 1)
TotalRead == ReadUpTo(NConn)

\* a task makes a step when a worker thread of the pool polls it
Polled(c) == workers > 0

ReleaseContextOnly(c) ==
    lock' = [lock EXCEPT ![StateLock] = IF lock[StateLock] = Task(c)
                                        THEN Free ELSE lock[StateLock]]

\* the guards a task holds are dropped
ReleaseAll(c) ==
    lock' = [m \in Mutexes |-> IF lock[m] = Task(c) THEN Free ELSE lock[m]]

PanicKeepingGuards(c, how) ==
    /\ pc' = [pc EXCEPT ![c] = "dead"]
    /\ result' = [result EXCEPT ![c] = how]
    /\ lock' = lock
    /\ workers' = workers - 1

\* A panic inside a pool task unwinds the worker thread that polls it: the
\* task is dropped with every guard it holds, and the thread is gone.
Panic(c, how) ==
    /\ pc' = [pc EXCEPT ![c] = "dead"]
    /\ result' = [result EXCEPT ![c] = how]
    /\ ReleaseAll(c)
    /\ workers' = workers - 1

(***************************************************************************)
(* The dispatcher: handle_connection, called by the listener for each      *)
(* accepted stream.  Connections are numbered in the order of their        *)
(* acceptance.  state.lock().await has to find the context lock free; the  *)
(* task is then queued on the pool and the guard dropped.                  *)
(***************************************************************************)
HandleConnectionSending(c) ==
    /\ pc[c] = "none"
    /\ \A d \in Conns : d < c => pc[d] # "none"
    /\ lock[StateLock] = Free
    /\ pc' = [pc EXCEPT ![c] = "reading"]
    /\ msgOutbox' = Append(msgOutbox, [block |-> <<c, 0>>])
    /\ UNCHANGED <<req, n, resp, result, log, written, submitted, lock,
                   txOutbox, txOpen, msgOpen, wsv, workers>>

handle_connection(c) ==
    /\ pc[c] = "none"
    /\ \A d \in Conns : d < c => pc[d] # "none"
    /\ lock[StateLock] = Free
    /\ pc' = [pc EXCEPT ![c] = "reading"]
    /\ UNCHANGED <<req, n, resp, result, log, written, submitted, lock,
                   channels, wsv, workers>>

(***************************************************************************)
(* handle_request, up to its first await.                                  *)
(***************************************************************************)
\* handle_request returns Ok(response): the task goes on to write it
Respond(c, response, how, printed) ==
    /\ pc' = [pc EXCEPT ![c] = "writing"]
    /\ resp' = [resp EXCEPT ![c] = response]
    /\ result' = [result EXCEPT ![c] = how]
    /\ log' = [log EXCEPT ![c] = printed]

\* the payload decoded: the task goes on to state.lock().await
Proceed(c) ==
    /\ pc' = [pc EXCEPT ![c] = "wait_state"]
    /\ resp' = [resp EXCEPT ![c] = NoResponse]
    /\ result' = [result EXCEPT ![c] = "none"]
    /\ log' = [log EXCEPT ![c] = ""]
    /\ UNCHANGED <<lock, workers>>

\* what the Err(e) arm of a route's decoding prints before the error
DecodeErrorLabel(url) ==
    CASE url = INSTRUCTIONS_URI -> "Failed to decode transaction: "
      [] url = QUERY_URI -> "Failed to decode transaction: "
      [] url = BLOCKS_URI -> "Failed to decode peer message: "

DecodeFailedPanics(c, url) ==
    /\ Panic(c, "panic_decode")
    /\ resp' = [resp EXCEPT ![c] = NoResponse]
    /\ log' = [log EXCEPT ![c] = DecodeErrorLabel(url)]

DecodeFailedVerbose(c, url) ==
    /\ Respond(c, INTERNAL_ERROR \o <<DecodeErrorLabel(url)>>, "decode_error",
               DecodeErrorLabel(url))
    /\ UNCHANGED <<lock, workers>>

\* the Err(e) arm of a route's decoding: eprintln! and Ok(INTERNAL_ERROR)
DecodeFailed(c, url) ==
    /\ Respond(c, INTERNAL_ERROR, "decode_error", DecodeErrorLabel(url))
    /\ UNCHANGED <<lock, workers>>

\* match request.url() and the decoding of the payload
Route(c, r) ==
    \/ /\ r.url = INSTRUCTIONS_URI
       /\ IF DecodeTransaction(r.payload).ok
          THEN Proceed(c)
          ELSE DecodeFailed(c, r.url)
    \/ /\ r.url = QUERY_URI
       /\ IF DecodeQuery(r.payload).ok
          THEN Proceed(c)
          ELSE DecodeFailed(c, r.url)
    \/ /\ r.url = BLOCKS_URI
       /\ IF DecodeMessage(r.payload).ok
          THEN Proceed(c)
          ELSE DecodeFailed(c, r.url)
    \/ /\ r.url \notin {INSTRUCTIONS_URI, QUERY_URI, BLOCKS_URI}
       /\ Panic(c, "panic_uri")
       /\ resp' = [resp EXCEPT ![c] = NoResponse]
       /\ log' = [log EXCEPT ![c] = ""]

(***************************************************************************)
(* The task of a connection: Network::handle_message_async reads a         *)
(* request, calls handle_request and writes its response, until the stream *)
(* is closed or fails.  An Err it returns meets .expect("Failed to handle  *)
(* message.") inside the task.                                             *)
(***************************************************************************)
\* the transactions that decode and pass acceptance
Acceptable(r) ==
    /\ r.url = INSTRUCTIONS_URI
    /\ DecodeTransaction(r.payload).ok
    /\ Accept(DecodeTransaction(r.payload).value).ok

\* stream.read yields request r, which is handed to handle_request at once
Read(c, r) ==
    /\ pc[c] = "reading"
    /\ Polled(c)
    /\ req' = [req EXCEPT ![c] = r]
    /\ n' = [n EXCEPT ![c] = n[c] + 1]
    /\ submitted' = IF Acceptable(r)
                    THEN submitted \cup {<<c, n[c] + 1>>}
                    ELSE submitted
    /\ Route(c, r)
    /\ UNCHANGED <<written, channels, wsv>>

\* the client of connection c sends its next request
ReadRequest(c) ==
    /\ pc[c] = "reading"
    /\ TotalRead < MaxRequests
    /\ \E r \in Requests(c, n[c] + 1) : Read(c, r)

\* stream.read fails
ReadError(c) ==
    /\ pc[c] = "reading"
    /\ Polled(c)
    /\ Panic(c, "io_error")
    /\ UNCHANGED <<req, n, resp, log, written, submitted, channels, wsv>>

\* the client has closed the stream: the task ends
StreamClosed(c) ==
    /\ pc[c] = "reading"
    /\ Polled(c)
    /\ pc' = [pc EXCEPT ![c] = "done"]
    /\ UNCHANGED <<req, n, resp, result, log, written, submitted, lock,
                   channels, wsv, workers>>

\* the exchange is over: the request and its response are dropped
EndExchange(c) ==
    /\ req' = [req EXCEPT ![c] = NoRequest]
    /\ resp' = [resp EXCEPT ![c] = NoResponse]
    /\ log' = [log EXCEPT ![c] = ""]

WriteResponseTwice(c) ==
    /\ pc[c] = "writing"
    /\ Polled(c)
    /\ written' = [written EXCEPT ![c] = Append(Append(written[c], n[c]), n[c])]
    /\ pc' = [pc EXCEPT ![c] = "reading"]
    /\ EndExchange(c)
    /\ UNCHANGED <<n, result, submitted, lock, channels, wsv, workers>>

\* stream.write_all(response): the task goes back to reading
WriteResponse(c) ==
    /\ pc[c] = "writing"
    /\ Polled(c)
    /\ written' = [written EXCEPT ![c] = Append(written[c], n[c])]
    /\ pc' = [pc EXCEPT ![c] = "reading"]
    /\ EndExchange(c)
    /\ UNCHANGED <<n, result, submitted, lock, channels, wsv, workers>>

\* stream.write_all fails
WriteError(c) ==
    /\ pc[c] = "writing"
    /\ Polled(c)
    /\ Panic(c, "io_error")
    /\ EndExchange(c)
    /\ UNCHANGED <<n, written, submitted, channels, wsv>>

(***************************************************************************)
(* handle_request, from its first await on.                                *)
(***************************************************************************)
\* state.lock().await
LockState(c) ==
    /\ pc[c] = "wait_state"
    /\ Polled(c)
    /\ lock[StateLock] = Free
    /\ lock' = [lock EXCEPT ![StateLock] = Task(c)]
    /\ pc' = [pc EXCEPT ![c] = "wait_inner"]
    /\ UNCHANGED <<req, n, resp, result, log, written, submitted, channels,
                   wsv, workers>>

\* the mutex of ToriiState a route locks next
InnerLock(url) ==
    CASE url = INSTRUCTIONS_URI -> TxLock
      [] url = QUERY_URI -> WsvLock
      [] url = BLOCKS_URI -> MsgLock

\* .transaction_sender.lock().await, .world_state_view.lock().await or
\* .message_sender.lock().await, with the guard of the context held
LockInner(c) ==
    /\ pc[c] = "wait_inner"
    /\ Polled(c)
    /\ lock[InnerLock(req[c].url)] = Free
    /\ lock' = [lock EXCEPT ![InnerLock(req[c].url)] = Task(c)]
    /\ pc' = [pc EXCEPT ![c] = "critical"]
    /\ UNCHANGED <<req, n, resp, result, log, written, submitted, channels,
                   wsv, workers>>

StartSendFront(outbox, item) == <<item>> \o outbox
StartSendLost(outbox, item) == outbox
StartSendTwice(outbox, item) == Append(Append(outbox, item), item)

\* start_send on an unbounded channel whose receiver is alive
start_send(outbox, item) == Append(outbox, item)

SendTransactionSwallowing(c) ==
    /\ pc[c] = "critical"
    /\ Polled(c)
    /\ req[c].url = INSTRUCTIONS_URI
    /\ LET accepted == Accept(DecodeTransaction(req[c].payload).value) IN
       \/ /\ ~accepted.ok
          /\ Panic(c, "panic_accept")
          /\ UNCHANGED <<resp, log, txOutbox>>
       \/ /\ accepted.ok
          /\ txOutbox' = IF txOpen
                         THEN start_send(txOutbox, accepted.value)
                         ELSE txOutbox
          /\ Respond(c, OK, "ok", "")
          /\ ReleaseAll(c)
          /\ UNCHANGED workers
    /\ UNCHANGED <<req, n, written, submitted, msgOutbox, txOpen, msgOpen,
                   wsv>>

\* .start_send(transaction.accept().expect("Failed to accept transaction."))
\* .map_err(..)?; Ok(OK.to_vec())
SendTransaction(c) ==
    /\ pc[c] = "critical"
    /\ Polled(c)
    /\ req[c].url = INSTRUCTIONS_URI
    /\ LET accepted == Accept(DecodeTransaction(req[c].payload).value) IN
       \/ /\ ~accepted.ok
          /\ Panic(c, "panic_accept")
          /\ UNCHANGED <<resp, log, txOutbox>>
       \/ /\ accepted.ok
          /\ txOpen
          /\ txOutbox' = start_send(txOutbox, accepted.value)
          /\ Respond(c, OK, "ok", "")
          /\ ReleaseAll(c)
          /\ UNCHANGED workers
       \/ /\ accepted.ok
          /\ ~txOpen
          /\ Panic(c, "send_error")
          /\ UNCHANGED <<resp, log, txOutbox>>
    /\ UNCHANGED <<req, n, written, submitted, msgOutbox, txOpen, msgOpen,
                   wsv>>

QueryResponseBare(executed) ==
    IF executed.ok THEN OK ELSE INTERNAL_ERROR

\* the arms of the match on the result of execute
QueryResponse(executed) ==
    IF executed.ok
    THEN OK \o Serialize(executed.value)
    ELSE INTERNAL_ERROR

ExecuteQueryWriting(c) ==
    /\ pc[c] = "critical"
    /\ Polled(c)
    /\ req[c].url = QUERY_URI
    /\ LET executed == Execute(DecodeQuery(req[c].payload).value, wsv) IN
       Respond(c, QueryResponse(executed),
               IF executed.ok THEN "ok" ELSE "query_error",
               IF executed.ok THEN "" ELSE executed.error)
    /\ ReleaseAll(c)
    /\ wsv' = CommittedView
    /\ UNCHANGED <<req, n, written, submitted, channels, workers>>

ExecuteQueryCounting(c) ==
    /\ pc[c] = "critical"
    /\ Polled(c)
    /\ req[c].url = QUERY_URI
    /\ LET counted == [a \in DOMAIN wsv |->
                          wsv[a] + Len(txOutbox) + Len(msgOutbox)]
           executed == Execute(DecodeQuery(req[c].payload).value, counted) IN
       Respond(c, QueryResponse(executed),
               IF executed.ok THEN "ok" ELSE "query_error",
               IF executed.ok THEN "" ELSE executed.error)
    /\ ReleaseAll(c)
    /\ UNCHANGED <<req, n, written, submitted, channels, wsv, workers>>

\* request.query.execute(&*state.lock().await.world_state_view.lock().await)
\* and the match on its result; the guards live to the end of the match
ExecuteQuery(c) ==
    /\ pc[c] = "critical"
    /\ Polled(c)
    /\ req[c].url = QUERY_URI
    /\ LET executed == Execute(DecodeQuery(req[c].payload).value, wsv) IN
       Respond(c, QueryResponse(executed),
               IF executed.ok THEN "ok" ELSE "query_error",
               IF executed.ok THEN "" ELSE executed.error)
    /\ ReleaseAll(c)
    /\ UNCHANGED <<req, n, written, submitted, channels, wsv, workers>>

SendMessageOnTransactionChannel(c) ==
    /\ pc[c] = "critical"
    /\ Polled(c)
    /\ req[c].url = BLOCKS_URI
    /\ \/ /\ msgOpen
          /\ txOutbox' = start_send(txOutbox, DecodeMessage(req[c].payload).value)
          /\ Respond(c, OK, "ok", "")
          /\ ReleaseAll(c)
          /\ UNCHANGED <<workers, msgOutbox>>
       \/ /\ ~msgOpen
          /\ Panic(c, "send_error")
          /\ UNCHANGED <<resp, log, msgOutbox, txOutbox>>
    /\ UNCHANGED <<req, n, written, submitted, txOpen, msgOpen, wsv>>

\* .start_send(message).map_err(..)?; Ok(OK.to_vec())
SendMessage(c) ==
    /\ pc[c] = "critical"
    /\ Polled(c)
    /\ req[c].url = BLOCKS_URI
    /\ \/ /\ msgOpen
          /\ msgOutbox' = start_send(msgOutbox,
                                     DecodeMessage(req[c].payload).value)
          /\ Respond(c, OK, "ok", "")
          /\ ReleaseAll(c)
          /\ UNCHANGED workers
       \/ /\ ~msgOpen
          /\ Panic(c, "send_error")
          /\ UNCHANGED <<resp, log, msgOutbox>>
    /\ UNCHANGED <<req, n, written, submitted, txOutbox, txOpen, msgOpen,
                   wsv>>

(***************************************************************************)
(* The collaborators: the consensus subsystem, which locks the world state *)
(* view on its own to commit a block to it (one block is followed: the     *)
(* view is then CommittedView), and the consumers of the two channels,     *)
(* which may drop their receiver.                                          *)
(***************************************************************************)
ConsensusLock ==
    /\ wsv = InitialView
    /\ lock[WsvLock] = Free
    /\ lock' = [lock EXCEPT ![WsvLock] = Consensus]
    /\ UNCHANGED <<conn, submitted, channels, wsv, workers>>

ConsensusUnlock(commit) ==
    /\ lock[WsvLock] = Consensus
    /\ lock' = [lock EXCEPT ![WsvLock] = Free]
    /\ wsv' = IF commit THEN CommittedView ELSE wsv
    /\ UNCHANGED <<conn, submitted, channels, workers>>

DropTransactionReceiver ==
    /\ txOpen
    /\ txOpen' = FALSE
    /\ UNCHANGED <<conn, submitted, lock, txOutbox, msgOutbox, msgOpen, wsv,
                   workers>>

DropMessageReceiver ==
    /\ msgOpen
    /\ msgOpen' = FALSE
    /\ UNCHANGED <<conn, submitted, lock, txOutbox, msgOutbox, txOpen, wsv,
                   workers>>

Next ==
    \/ \E c \in Conns : handle_connection(c)
    \/ \E c \in Conns : ReadRequest(c)
    \/ \E c \in Conns : ReadError(c)
    \/ \E c \in Conns : StreamClosed(c)
    \/ \E c \in Conns : LockState(c)
    \/ \E c \in Conns : LockInner(c)
    \/ \E c \in Conns : SendTransaction(c)
    \/ \E c \in Conns : ExecuteQuery(c)
    \/ \E c \in Conns : SendMessage(c)
    \/ \E c \in Conns : WriteResponse(c)
    \/ \E c \in Conns : WriteError(c)
    \/ ConsensusLock
    \/ \E commit \in BOOLEAN : ConsensusUnlock(commit)
    \/ DropTransactionReceiver
    \/ DropMessageReceiver

Spec == Init /\ [][Next]_vars

(***************************************************************************)
(* The gateway under a load of acceptable transactions only: every client  *)
(* submits PerConn of them and no stream fails; the consumer of the        *)
(* transaction channel may still go away.                                  *)
(***************************************************************************)
SubmitTransaction(c) ==
    /\ n[c] < PerConn
    /\ Read(c, [url |-> INSTRUCTIONS_URI,
                payload |-> <<"tx", "signed", c, n[c] + 1>>])

NextTx ==
    \/ \E c \in Conns : handle_connection(c)
    \/ \E c \in Conns : SubmitTransaction(c)
    \/ \E c \in Conns : LockState(c)
    \/ \E c \in Conns : LockInner(c)
    \/ \E c \in Conns : SendTransaction(c)
    \/ \E c \in Conns : WriteResponse(c)
    \/ DropTransactionReceiver

SpecTx == Init /\ [][NextTx]_vars

(***************************************************************************)
(* Vocabulary of the properties.                                           *)
(***************************************************************************)
\* how often x occurs in sequence q
Count(q, x) == Cardinality({i \in DOMAIN q : q[i] = x})

\* what request k of connection c puts on a channel when it is forwarded
TxItem(c, k) ==
    Accept(DecodeTransaction(<<"tx", "signed", c, k>>).value).value
MsgItem(c, k) == DecodeMessage(<<"msg", c, k>>).value

\* items the current request of connection c has put on each channel
PushedTx(c) == Count(txOutbox, TxItem(c, n[c]))
PushedMsg(c) == Count(msgOutbox, MsgItem(c, n[c]))

\* connection c has a request whose call of handle_request is under way
InRequest(c) == pc[c] \in {"wait_state", "wait_inner", "critical"}
\* ... has returned Ok(response)
Answered(c) == pc[c] = "writing"
\* ... has ended in an Err or a panic
Failed(c) ==
    pc[c] = "dead" /\ result[c] \in {"send_error", "panic_uri", "panic_accept"}
\* ... has ended, one way or the other
Returned(c) == Answered(c) \/ Failed(c)

OnRoute(c, url) == req[c] # NoRequest /\ req[c].url = url
Undecodable(c) ==
    \/ OnRoute(c, INSTRUCTIONS_URI) /\ ~DecodeTransaction(req[c].payload).ok
    \/ OnRoute(c, QUERY_URI) /\ ~DecodeQuery(req[c].payload).ok
    \/ OnRoute(c, BLOCKS_URI) /\ ~DecodeMessage(req[c].payload).ok
Rejected(c) ==
    /\ OnRoute(c, INSTRUCTIONS_URI)
    /\ DecodeTransaction(req[c].payload).ok
    /\ ~Accept(DecodeTransaction(req[c].payload).value).ok

(***************************************************************************)
(* C1.  Transaction path.  As claimed: every request on /instruction whose *)
(* payload decodes to a transaction that passes acceptance ends with       *)
(* exactly one item on the transaction outbox and the OK response; every   *)
(* request whose payload fails to decode ends with no item on either       *)
(* outbox and the internal-error response.                                 *)
(***************************************************************************)
C1Undecodable ==
    \A c \in Conns :
        OnRoute(c, INSTRUCTIONS_URI) /\ Undecodable(c) =>
            /\ Answered(c)
            /\ resp[c] = INTERNAL_ERROR
            /\ PushedTx(c) = 0 /\ PushedMsg(c) = 0

C1AsClaimed ==
    /\ C1Undecodable
    /\ \A c \in Conns :
        OnRoute(c, INSTRUCTIONS_URI) /\ Acceptable(req[c]) /\ Returned(c) =>
            /\ Answered(c)
            /\ resp[c] = OK
            /\ PushedTx(c) = 1

\* C1 as amended: the same, for the requests forwarded while the receiver of
\* the transaction channel is alive; the item is on the outbox exactly once
\* when handle_request returns and not at all before, and nothing is put on
\* the message outbox.
C1Theorem ==
    /\ C1Undecodable
    /\ \A c \in Conns :
        OnRoute(c, INSTRUCTIONS_URI) /\ Acceptable(req[c]) =>
            /\ Returned(c) /\ txOpen => Answered(c)
            /\ Answered(c) => resp[c] = OK /\ PushedTx(c) = 1
            /\ InRequest(c) => PushedTx(c) = 0
            /\ PushedMsg(c) = 0

C1Witness ==
    \E c, d \in Conns :
        /\ Answered(c) /\ Acceptable(req[c])
        /\ resp[c] = OK /\ PushedTx(c) = 1
        /\ Answered(d) /\ OnRoute(d, INSTRUCTIONS_URI) /\ Undecodable(d)
        /\ resp[d] = INTERNAL_ERROR

(***************************************************************************)
(* C2.  Peer-message path.  As claimed: every request on /block whose      *)
(* payload decodes to a peer message ends with exactly one item on the     *)
(* message outbox and the OK response; every request whose payload fails   *)
(* to decode ends with no item on either outbox and the internal-error     *)
(* response.                                                               *)
(***************************************************************************)
C2Undecodable ==
    \A c \in Conns :
        OnRoute(c, BLOCKS_URI) /\ Undecodable(c) =>
            /\ Answered(c)
            /\ resp[c] = INTERNAL_ERROR
            /\ PushedTx(c) = 0 /\ PushedMsg(c) = 0

C2AsClaimed ==
    /\ C2Undecodable
    /\ \A c \in Conns :
        OnRoute(c, BLOCKS_URI) /\ ~Undecodable(c) /\ Returned(c) =>
            /\ Answered(c)
            /\ resp[c] = OK
            /\ PushedMsg(c) = 1

\* C2 as amended: the same, for the requests forwarded while the receiver of
\* the message channel is alive; the item is on the outbox exactly once when
\* handle_request returns and not at all before, and nothing is put on the
\* transaction outbox.
C2Theorem ==
    /\ C2Undecodable
    /\ \A c \in Conns :
        OnRoute(c, BLOCKS_URI) /\ ~Undecodable(c) =>
            /\ Returned(c) /\ msgOpen => Answered(c)
            /\ Answered(c) => resp[c] = OK /\ PushedMsg(c) = 1
            /\ InRequest(c) => PushedMsg(c) = 0
            /\ PushedTx(c) = 0

C2Witness ==
    \E c, d \in Conns :
        /\ Answered(c) /\ OnRoute(c, BLOCKS_URI) /\ ~Undecodable(c)
        /\ resp[c] = OK /\ PushedMsg(c) = 1
        /\ Answered(d) /\ OnRoute(d, BLOCKS_URI) /\ Undecodable(d)
        /\ resp[d] = INTERNAL_ERROR

(***************************************************************************)
(* C3.  Query path: handle_request returns the OK status line immediately  *)
(* followed by the serialized result when the payload decodes and the      *)
(* query executes successfully against the state view (a view the world    *)
(* state has had: the current one, or the one before the commit), and the  *)
(* internal-error response, which has no body, when the payload fails to   *)
(* decode or the query's account does not exist.  Nothing is put on an     *)
(* outbox.                                                                 *)
(***************************************************************************)
\* the views the world state has had up to now
ViewsSoFar == IF wsv = InitialView THEN {InitialView} ELSE {InitialView, wsv}

C3Theorem ==
    \A c \in Conns :
        OnRoute(c, QUERY_URI) =>
            /\ PushedTx(c) = 0 /\ PushedMsg(c) = 0
            /\ ~Failed(c)
            /\ Undecodable(c) => Answered(c) /\ resp[c] = INTERNAL_ERROR
            /\ Answered(c) /\ ~Undecodable(c) =>
                LET account == req[c].payload[2] IN
                IF account \in Accounts
                THEN \E view \in ViewsSoFar :
                        resp[c] = OK \o <<"account", account,
                                          "quantity", view[account]>>
                ELSE resp[c] = INTERNAL_ERROR

C3Witness ==
    \E c, d \in Conns :
        /\ Answered(c) /\ OnRoute(c, QUERY_URI)
        /\ resp[c] = OK \o <<"account", "alice", "quantity", 1>>
        /\ Answered(d) /\ OnRoute(d, QUERY_URI) /\ ~Undecodable(d)
        /\ resp[d] = INTERNAL_ERROR

(***************************************************************************)
(* C4.  As claimed: when a payload on /instruction decodes but the decoded *)
(* transaction fails acceptance, handle_request returns the internal-error *)
(* response, nothing is put on the transaction outbox and the connection's *)
(* task keeps running.                                                     *)
(***************************************************************************)
C4AsClaimed ==
    \A c \in Conns :
        Rejected(c) /\ ~InRequest(c) =>
            /\ Answered(c)
            /\ resp[c] = INTERNAL_ERROR
            /\ PushedTx(c) = 0

(***************************************************************************)
(* C5.  Under SpecTx, NConn connections handled concurrently, each         *)
(* submitting PerConn acceptable transactions.  As claimed: once every     *)
(* connection has submitted its PerConn transactions and no task is still  *)
(* at work on one, the transaction outbox holds exactly NConn * PerConn    *)
(* items, each submitted transaction once.                                 *)
(***************************************************************************)
AllSubmitted ==
    \A c \in Conns : n[c] = PerConn /\ pc[c] \in {"reading", "dead"}

AllAnswered == \A c \in Conns : n[c] = PerConn /\ pc[c] = "reading"

\* request k of connection c has been forwarded by SendTransaction
Forwarded(c, k) == k < n[c] \/ (k = n[c] /\ pc[c] \in {"writing", "reading"})

C6Theorem ==
    \A c \in Conns :
        /\ Undecodable(c) =>
            /\ Answered(c)
            /\ resp[c] = INTERNAL_ERROR
            /\ result[c] = "decode_error"
        /\ result[c] = "decode_error" =>
            /\ pc[c] \in {"writing", "reading", "done"}
            /\ pc[c] # "writing" => Len(written[c]) = n[c]

\* request 1 of a connection failed to decode, its internal-error response is
\* written and the task is ready to read request 2
C6Witness ==
    \E c \in Conns :
        /\ pc[c] = "reading"
        /\ result[c] = "decode_error"
        /\ written[c] = <<1>>
        /\ ENABLED ReadRequest(c)

(***************************************************************************)
(* C7.  As claimed: a request whose URI is none of the three routes gets   *)
(* no response and puts nothing on an outbox, and it aborts the processing *)
(* of its own connection only: the tasks of the other connections keep     *)
(* being run.                                                              *)
(***************************************************************************)
Alive(c) ==
    pc[c] \in {"reading", "wait_state", "wait_inner", "critical", "writing"}

C7AsClaimed ==
    \A c \in Conns :
        result[c] = "panic_uri" =>
            /\ resp[c] = NoResponse
            /\ PushedTx(c) = 0 /\ PushedMsg(c) = 0
            /\ \A d \in Conns \ {c} : Alive(d) => Polled(d)

(***************************************************************************)
(* C8.  As claimed: a stream read or write error on one connection ends    *)
(* that connection's loop only and leaves the worker pool as able to run   *)
(* tasks as it was: as long as stream errors are the only failures, the    *)
(* pool has all its worker threads.                                        *)
(***************************************************************************)
C8AsClaimed ==
    (\A c \in Conns : pc[c] = "dead" => result[c] = "io_error")
        => workers = PoolSize

(***************************************************************************)
(* C9.  Within one connection the requests are handled one at a time and   *)
(* in order: the responses written on connection c are those of requests   *)
(* 1, 2, ... in that order, each once; while a request is being handled or *)
(* its response is waiting to be written it is the only unanswered request *)
(* read from the connection, so request k+1 is not routed before the       *)
(* response to request k is written.                                       *)
(***************************************************************************)
C9Theorem ==
    \A c \in Conns :
        /\ written[c] = [k \in 1..Len(written[c]) |-> k]
        /\ InRequest(c) \/ Answered(c) => n[c] = Len(written[c]) + 1
        /\ pc[c] \in {"none", "reading", "done"} => n[c] = Len(written[c])
        /\ Len(written[c]) <= n[c] /\ n[c] <= Len(written[c]) + 1

C9Witness ==
    \E c \in Conns : written[c] = <<1, 2>> /\ pc[c] = "reading"

(***************************************************************************)
(* C10.  A task holds the lock of the world state view only while it       *)
(* executes one query: only on the query route, after the payload has      *)
(* decoded, together with the lock of the context and with neither sender  *)
(* lock; the lock is released when handle_request returns its response,    *)
(* and no task holds it on a route that sends on a channel.                *)
(***************************************************************************)
C10Theorem ==
    \A c \in Conns :
        Holds(c, WsvLock) =>
            /\ pc[c] = "critical"
            /\ OnRoute(c, QUERY_URI)
            /\ DecodeQuery(req[c].payload).ok
            /\ Holds(c, StateLock)
            /\ ~Holds(c, TxLock)
            /\ ~Holds(c, MsgLock)

C10Witness ==
    \E c \in Conns : Holds(c, WsvLock) /\ pc[c] = "critical"
(***************************************************************************)
(* C11.  As claimed: connections do not block one another.  While the      *)
(* query of one connection is suspended on the lock of the world state     *)
(* view, which the consensus subsystem holds, a decoded transaction or     *)
(* peer message of another connection can go on to be enqueued and         *)
(* answered, and the next inbound connection can be dispatched.            *)
(***************************************************************************)
Suspended(c) ==
    /\ pc[c] = "wait_inner"
    /\ OnRoute(c, QUERY_URI)
    /\ lock[WsvLock] = Consensus

NextToDispatch(d) ==
    pc[d] = "none" /\ \A e \in Conns : e < d => pc[e] # "none"

C11AsClaimed ==
    \A c \in Conns :
        Suspended(c) =>
            /\ \A d \in Conns \ {c} :
                (/\ pc[d] = "wait_state"
                 /\ req[d].url \in {INSTRUCTIONS_URI, BLOCKS_URI})
                    => ENABLED LockState(d)
            /\ \A d \in Conns : NextToDispatch(d) => ENABLED handle_connection(d)

(***************************************************************************)
(* C12.  A send on a channel whose receiver is gone is never answered with *)
(* OK and puts no item on an outbox: the call of handle_request ends in an *)
(* error, with no response, and the request is never answered.  Conversely *)
(* an OK response on a sending route always has its item on the outbox,    *)
(* and a forwarding that ended without its item ended in the send error.   *)
(***************************************************************************)
SendFailed(c) == pc[c] = "dead" /\ result[c] = "send_error"

C12Theorem ==
    \A c \in Conns :
        /\ result[c] = "send_error" =>
            /\ pc[c] = "dead"
            /\ resp[c] = NoResponse
            /\ PushedTx(c) = 0 /\ PushedMsg(c) = 0
            /\ Len(written[c]) = n[c] - 1
            /\ \/ Acceptable(req[c]) /\ ~txOpen
               \/ OnRoute(c, BLOCKS_URI) /\ ~Undecodable(c) /\ ~msgOpen
        /\ Returned(c) /\ Acceptable(req[c]) /\ PushedTx(c) = 0 => SendFailed(c)
        /\ (/\ Returned(c)
            /\ OnRoute(c, BLOCKS_URI) /\ ~Undecodable(c)
            /\ PushedMsg(c) = 0) => SendFailed(c)

C12Witness ==
    \E c \in Conns :
        /\ SendFailed(c)
        /\ Acceptable(req[c])
        /\ ~txOpen /\ txOutbox = <<>>

(***************************************************************************)
(* C13.  Every response handed to a client is either the OK status line    *)
(* (alone on the transaction and peer-message routes, followed by the      *)
(* serialized result on the query route) or the internal-error status line *)
(* alone; a decode failure and a failed query execution give the same      *)
(* bytes.                                                                  *)
(***************************************************************************)
QueryResults ==
    UNION { { Serialize(<<a, InitialView[a]>>),
              Serialize(<<a, CommittedView[a]>>) } : a \in Accounts }

C13Theorem ==
    \A c \in Conns :
        Answered(c) =>
            /\ \/ resp[c] = INTERNAL_ERROR
               \/ resp[c] = OK /\ ~OnRoute(c, QUERY_URI)
               \/ /\ OnRoute(c, QUERY_URI)
                  /\ \E body \in QueryResults : resp[c] = OK \o body
            /\ result[c] \in {"decode_error", "query_error"}
                   <=> resp[c] = INTERNAL_ERROR
            /\ result[c] \in {"ok", "decode_error", "query_error"}

\* one client is handed the response of a decode failure, another that of a
\* failed query execution: the same bytes
C13Witness ==
    \E c, d \in Conns :
        /\ Answered(c) /\ result[c] = "decode_error"
        /\ Answered(d) /\ result[d] = "query_error"
        /\ resp[c] = resp[d]

(***************************************************************************)
(* C14.  The response to a query is a function of its payload and of the   *)
(* world state view alone.  As long as the consensus subsystem has not     *)
(* modified the view, the response to a decoded query is the one computed  *)
(* from the payload and the initial view, whatever requests were handled   *)
(* before it, and two connections that sent the same payload hold          *)
(* identical responses.                                                    *)
(***************************************************************************)
QueryAnswered(c) ==
    Answered(c) /\ OnRoute(c, QUERY_URI) /\ ~Undecodable(c)

IsPrefix(s, t) == Len(s) <= Len(t) /\ \A i \in DOMAIN s : t[i] = s[i]

Forwarding(c, url) == pc[c] = "critical" /\ OnRoute(c, url)

FrameStep ==
    /\ wsv' # wsv =>
        /\ lock[WsvLock] = Consensus
        /\ conn' = conn
        /\ channels' = channels
    /\ IsPrefix(txOutbox, txOutbox')
    /\ IsPrefix(msgOutbox, msgOutbox')
    /\ txOutbox' # txOutbox =>
        /\ msgOutbox' = msgOutbox
        /\ \E c \in Conns :
            Forwarding(c, INSTRUCTIONS_URI) /\ pc'[c] = "writing"
    /\ msgOutbox' # msgOutbox =>
        /\ txOutbox' = txOutbox
        /\ \E c \in Conns : Forwarding(c, BLOCKS_URI) /\ pc'[c] = "writing"
    /\ \A c \in Conns :
        OnRoute(c, QUERY_URI) /\ pc'[c] # pc[c] =>
            txOutbox' = txOutbox /\ msgOutbox' = msgOutbox

C15Theorem == [][FrameStep]_vars

\* a transaction and a peer message have each been forwarded
C15Witness ==
    /\ Len(txOutbox) = 1 /\ Len(msgOutbox) = 1
    /\ wsv = InitialView
    /\ \A c \in Conns : pc[c] = "writing" /\ resp[c] = OK

(***************************************************************************)
(* C16.  As claimed: every internal-error response comes with a printed    *)
(* diagnostic whose label tells the cause: a decode failure and a failed   *)
(* query execution never print the same label, and the label of a decode   *)
(* failure tells the kind of payload, so decode failures of different      *)
(* kinds of payload never print the same label.                            *)
(***************************************************************************)
C16AsClaimed ==
    /\ \A c \in Conns :
        Answered(c) /\ resp[c] = INTERNAL_ERROR => log[c] # ""
    /\ \A c, d \in Conns :
        (/\ Answered(c) /\ result[c] = "decode_error"
         /\ Answered(d) /\ result[d] = "query_error") => log[c] # log[d]
    /\ \A c, d \in Conns :
        (/\ Answered(c) /\ Undecodable(c)
         /\ Answered(d) /\ Undecodable(d)
         /\ req[c].url # req[d].url) => log[c] # log[d]

(***************************************************************************)
(* C17.  Torii::new and Torii::start send nothing and lock nothing: as     *)
(* long as no request has been read, both outboxes are empty, no task      *)
(* holds a lock, no call of handle_request has failed and the listener can *)
(* hand over its next connection, also when the receivers of both channels *)
(* have been dropped.                                                      *)
(***************************************************************************)
C17Theorem ==
    TotalRead = 0 =>
        /\ txOutbox = <<>> /\ msgOutbox = <<>>
        /\ \A m \in Mutexes : \A c \in Conns : ~Holds(c, m)
        /\ \A c \in Conns :
            /\ pc[c] \in {"none", "reading", "done", "dead"}
            /\ pc[c] = "dead" => result[c] = "io_error"
            /\ NextToDispatch(c) => ENABLED handle_connection(c)

\* the gateway of tests::create_and_start_torii: started, both receivers
\* dropped, connections accepted and no request yet
C17Witness ==
    /\ TotalRead = 0
    /\ ~txOpen /\ ~msgOpen
    /\ \A c \in Conns : pc[c] = "reading"
    /\ workers = PoolSize

(***************************************************************************)
(* C18.  As claimed: the locking is free of deadlock.  A task takes the    *)
(* lock of the context first and then at most one of the three inner       *)
(* locks, and no reachable state is a deadlock: whenever a request is      *)
(* under way, a step of some task or the release of the view by the        *)
(* consensus subsystem is possible.                                        *)
(***************************************************************************)
InnerHeld(c) == {m \in Mutexes \ {StateLock} : Holds(c, m)}

TaskStep(c) ==
    \/ LockState(c)
    \/ LockInner(c)
    \/ SendTransaction(c)
    \/ ExecuteQuery(c)
    \/ SendMessage(c)

C18AsClaimed ==
    /\ \A c \in Conns :
        /\ InnerHeld(c) # {} => Holds(c, StateLock)
        /\ Cardinality(InnerHeld(c)) <= 1
    /\ (\E c \in Conns : InRequest(c)) =>
        ENABLED (\/ \E c \in Conns : TaskStep(c)
                 \/ \E commit \in BOOLEAN : ConsensusUnlock(commit))

(***************************************************************************)
(* C19.  The lock of the context serializes the critical sections: at most *)
(* one request over all connections is past state.lock().await, it is the  *)
(* one that holds the lock of the context, and it holds the inner lock of  *)
(* its route once it is forwarding or querying and no other; a task that   *)
(* is not in a critical section (not started, reading, waiting for the     *)
(* context, writing, ended or dead of a panic) holds no lock at all.       *)
(***************************************************************************)
InSection(c) == pc[c] \in {"wait_inner", "critical"}

C19Theorem ==
    /\ Cardinality({c \in Conns : InSection(c)}) <= 1
    /\ \A c \in Conns :
        /\ InSection(c) <=> Holds(c, StateLock)
        /\ pc[c] = "critical" => InnerHeld(c) = {InnerLock(req[c].url)}
        /\ pc[c] # "critical" => InnerHeld(c) = {}

\* one task in its critical section while another waits for the context
C19Witness ==
    \E c, d \in Conns :
        /\ pc[c] = "critical"
        /\ pc[d] = "wait_state"
        /\ Len(written[c]) + Len(written[d]) = 0

(***************************************************************************)
(* C20.  Enqueue precedes acknowledgement, and the order of a connection   *)
(* is kept: when handle_request has returned OK on /instruction or /block  *)
(* the request's item is on the outbox of its route, and on each outbox    *)
(* the items of one connection stand in the order of its requests.         *)
(***************************************************************************)
InOrder(q, field) ==
    \A i, j \in DOMAIN q :
        i < j /\ q[i][field][1] = q[j][field][1]
            => q[i][field][2] < q[j][field][2]

C20Theorem ==
    /\ \A c \in Conns :
        /\ Answered(c) /\ resp[c] = OK /\ OnRoute(c, INSTRUCTIONS_URI)
            => \E i \in DOMAIN txOutbox : txOutbox[i] = TxItem(c, n[c])
        /\ Answered(c) /\ resp[c] = OK /\ OnRoute(c, BLOCKS_URI)
            => \E i \in DOMAIN msgOutbox : msgOutbox[i] = MsgItem(c, n[c])
    /\ InOrder(txOutbox, "accepted")
    /\ InOrder(msgOutbox, "block")

\* two transactions of one connection, both forwarded, the second just
\* acknowledged
C20Witness ==
    \E c \in Conns :
        /\ txOutbox = <<TxItem(c, 1), TxItem(c, 2)>>
        /\ written[c] = <<1>>
        /\ Answered(c) /\ resp[c] = OK

====
